---- MODULE Spec2Model ----
(***************************************************************************)
(* Block children (packages/blocks/src/api/children.js): the rich text     *)
(* value of a block as an array of children, each a string or an element   *)
(* node, with concat, fromDOM, toText and matcher over it.                 *)
(*                                                                         *)
(* Arrays are JavaScript objects with identity, so they live in a heap of  *)
(* arrays addressed by their index; strings and element nodes are values.  *)
(* A behaviour is one expression a caller evaluates: a call on fresh       *)
(* input, possibly fed into further calls (concat(concat(a, b)),           *)
(* concat(fromDOM(n)), toText(concat(a, b)), ...).                         *)
(***************************************************************************)
EXTENDS Integers, Sequences, FiniteSets, TLC

VARIABLES
    heap,        \* the arrays alive, by address (1..Len(heap))
    op,          \* the call that returned last: "none" before the first
    prevOp,      \* the call before it
    calls,       \* number of calls made so far
    blockNodes,  \* arguments of the last concat call
    entryHeap,   \* the heap as it was when the last concat, fromDOM or
                 \* matcher call was entered
    ret,         \* address of the array the last call returned (0: none)
    prevRet,     \* address returned by the call before it (0: none)
    raised,      \* whether the last call ended by throwing
    domNodes,    \* node list the last fromDOM run was given
    domNode,     \* root node the last matcher function was applied to
    selector,    \* selector of the last matcher
    text         \* string returned by the last toText call

vars == <<heap, op, prevOp, calls, blockNodes, entryHeap, ret, prevRet,
          raised, domNodes, domNode, selector, text>>

----------------------------------------------------------------------------
(* Bounds of the model.                                                    *)

\* Weight of the input of one concat / toText call: one per child (nested
\* children included) plus one per array argument.
MaxWeight == 4
\* Number of DOM nodes below the root (or in the node list) of one call.
MaxNodes == 3
\* Number of calls in one behaviour.
MaxCalls == 2

----------------------------------------------------------------------------
(* Data: WPBlockChild is a string or an element node.                      *)

TextRun(s) == [kind |-> "text", value |-> s]
InlineNode(t, c) == [kind |-> "node", type |-> t, children |-> c]

\* typeof x === 'string'
IsString(x) == x.kind = "text"

Strings == {"", "a", "b"}
Types == {"em"}

RECURSIVE ItemsOfWeight(_), ChildrenOfWeight(_)
\* The children (strings, element nodes) made of exactly n children in all.
ItemsOfWeight(n) ==
    IF n = 0 THEN {}
    ELSE (IF n = 1 THEN {TextRun(s) : s \in Strings} ELSE {})
         \cup {InlineNode(t, c) : t \in Types, c \in ChildrenOfWeight(n - 1)}

\* The arrays of children made of exactly n children in all.
ChildrenOfWeight(n) ==
    IF n = 0 THEN {<<>>}
    ELSE UNION {{<<x>> \o s : x \in ItemsOfWeight(k), s \in ChildrenOfWeight(n - k)}
                : k \in 1..n}

\* One argument of concat: a single child, or an array of children.
ArgsOfWeight(n) ==
    {[tag |-> "item", item |-> x] : x \in ItemsOfWeight(n)}
    \cup (IF n = 0 THEN {}
          ELSE {[tag |-> "array", items |-> s] : s \in ChildrenOfWeight(n - 1)})

RECURSIVE ArgListsOfWeight(_)
ArgListsOfWeight(n) ==
    IF n = 0 THEN {<<>>}
    ELSE UNION {{<<x>> \o s : x \in ArgsOfWeight(k), s \in ArgListsOfWeight(n - k)}
                : k \in 1..n}

ArgLists == UNION {ArgListsOfWeight(n) : n \in 0..MaxWeight}
ChildrenInputs == UNION {ChildrenOfWeight(n) : n \in 0..(MaxWeight - 1)}

----------------------------------------------------------------------------
(* concat                                                                  *)

\* lodash castArray: the array itself, or a one-element array of the value.
castArray(h, x) == IF x.tag = "array" THEN h[x.addr] ELSE <<x.item>>

\* Variant: the previous child tested for truthiness before its type, so that
\* an empty string is never merged onto.
canConcatToTruthyString(child, result) ==
    /\ IsString(child)
    /\ Len(result) > 0
    /\ IsString(result[Len(result)])
    /\ result[Len(result)].value # ""

\* Variant: the type test misspelt, so that it never succeeds.
canConcatNever(child, result) == FALSE

canConcatToPreviousString(child, result) ==
    /\ IsString(child)
    /\ Len(result) > 0
    /\ IsString(result[Len(result)])

\* Variant: = in place of +=.
overwriteLast(result, child) ==
    [result EXCEPT ![Len(result)] = TextRun(child.value)]

\* Variant: the operands of the string concatenation swapped.
prependToLast(result, child) ==
    [result EXCEPT ![Len(result)] = TextRun(child.value \o @.value)]

\* result[ result.length - 1 ] += child
appendToLast(result, child) ==
    [result EXCEPT ![Len(result)] = TextRun(@.value \o child.value)]

\* Variant: unshift in place of push.
unshiftChild(result, child) == <<child>> \o result

\* result.push( child )
pushChild(result, child) == Append(result, child)

RECURSIVE concatLoop(_, _, _, _, _)
\* The two nested loops, from position (i, j), writing to the array at
\* address result; the arrays passed as arguments are read where they live.
concatLoop(h, result, args, i, j) ==
    IF i > Len(args) THEN h
    ELSE LET blockNode == castArray(h, args[i]) IN
         IF j > Len(blockNode) THEN concatLoop(h, result, args, i + 1, 1)
         ELSE LET child == blockNode[j]
                  next == IF canConcatToPreviousString(child, h[result])
                          THEN appendToLast(h[result], child)
                          ELSE pushChild(h[result], child)
              IN concatLoop([h EXCEPT ![result] = next], result, args, i, j + 1)

\* Variant: the first argument, when an array, reused as the accumulator and
\* returned, in place of a new array.
concatReusingFirst(h, args) ==
    LET result == Len(h) + 1
        done == concatLoop(Append(h, <<>>), result, args, 1, 1)
    IN IF args # <<>> /\ args[1].tag = "array"
       THEN [heap |-> [done EXCEPT ![args[1].addr] = done[result]],
             ret |-> args[1].addr]
       ELSE [heap |-> done, ret |-> result]

\* concat( ...blockNodes ): the heap after the call and the address returned.
concat(h, args) ==
    LET result == Len(h) + 1
    IN [heap |-> concatLoop(Append(h, <<>>), result, args, 1, 1), ret |-> result]

----------------------------------------------------------------------------
(* DOM nodes, as far as this module reads them: nodeType, nodeName,        *)
(* nodeValue and childNodes.                                               *)

\* null, where a node is expected, and null or undefined as a selector.
NoNode == [nodeType |-> "none", nodeName |-> "", nodeValue |-> "", childNodes |-> <<>>]
NoSelector == [defined |-> FALSE, string |-> ""]

TextNode(s) == [nodeType |-> "text", nodeName |-> "#text", nodeValue |-> s, childNodes |-> <<>>]
CommentNode == [nodeType |-> "comment", nodeName |-> "#comment", nodeValue |-> "", childNodes |-> <<>>]
ElementNode(t, c) == [nodeType |-> "element", nodeName |-> t, nodeValue |-> "", childNodes |-> c]

NodeTexts == {"a", "b"}
Tags == {"p", "em"}

RECURSIVE NodesOfSize(_), NodeListsOfSize(_)
\* The DOM subtrees of exactly n nodes.
NodesOfSize(n) ==
    IF n = 0 THEN {}
    ELSE (IF n = 1 THEN {TextNode(s) : s \in NodeTexts} \cup {CommentNode} ELSE {})
         \cup {ElementNode(t, c) : t \in Tags, c \in NodeListsOfSize(n - 1)}

\* The node lists of exactly n nodes in all.
NodeListsOfSize(n) ==
    IF n = 0 THEN {<<>>}
    ELSE UNION {{<<x>> \o s : x \in NodesOfSize(k), s \in NodeListsOfSize(n - k)}
                : k \in 1..n}

NodeLists == UNION {NodeListsOfSize(n) : n \in 0..MaxNodes}
Roots == {ElementNode("div", c) : c \in NodeLists}
Selectors == {NoSelector} \cup {[defined |-> TRUE, string |-> s] : s \in {""} \cup Tags}

----------------------------------------------------------------------------
(* fromDOM                                                                 *)

\* A call's outcome: a value returned, or an exception thrown.
Returned(v) == [threw |-> FALSE, value |-> v]
Thrown == [threw |-> TRUE]

\* Variant: the error thrown again.
rethrowConversionError(result) == Thrown

\* } catch ( error ) { }: the node is ignored and the loop goes on.
catchConversionError(result) == Returned(result)

\* Variant: a string merged onto a string before it, as concat does.
pushCoalesced(result, item) ==
    IF IsString(item) /\ Len(result) > 0 /\ IsString(result[Len(result)])
    THEN [result EXCEPT ![Len(result)] = TextRun(@.value \o item.value)]
    ELSE Append(result, item)

\* result.push( node.fromDOM( domNodes[ i ] ) )
pushConverted(result, item) == Append(result, item)

RECURSIVE nodeFromDOM(_), fromDOMLoop(_, _, _)

\* The loop of fromDOM from index i, result being the array built so far.
fromDOMLoop(nodes, i, result) ==
    IF i > Len(nodes) THEN Returned(result)
    ELSE LET converted == nodeFromDOM(nodes[i])
             step == IF converted.threw
                     THEN catchConversionError(result)
                     ELSE Returned(pushConverted(result, converted.value))
         IN IF step.threw THEN Thrown
            ELSE fromDOMLoop(nodes, i + 1, step.value)

\* fromDOM( domNodes )
fromDOM(nodes) == fromDOMLoop(nodes, 1, <<>>)

\* node.fromDOM: a text node gives its string, an element gives an element
\* node holding its converted child nodes, any other node throws.
nodeFromDOM(n) ==
    IF n.nodeType = "text" THEN Returned(TextRun(n.nodeValue))
    ELSE IF n.nodeType = "element"
         THEN LET c == fromDOM(n.childNodes)
              IN IF c.threw THEN Thrown
                 ELSE Returned(InlineNode(n.nodeName, c.value))
         ELSE Thrown

----------------------------------------------------------------------------
(* matcher                                                                 *)

RECURSIVE firstMatchIn(_, _)
\* The first element of the node list or below it, in document order,
\* whose name is sel; NoNode if there is none.
firstMatchIn(nodes, sel) ==
    IF nodes = <<>> THEN NoNode
    ELSE LET n == Head(nodes) IN
         IF n.nodeType = "element" /\ n.nodeName = sel THEN n
         ELSE LET below == firstMatchIn(n.childNodes, sel)
              IN IF below # NoNode THEN below
                 ELSE firstMatchIn(Tail(nodes), sel)

\* domNode.querySelector( selector ): the first matching descendant, or null.
querySelector(node, sel) == firstMatchIn(node.childNodes, sel)

\* Variant: selector compared with null only.
NotNull(sel) == sel.defined

\* if ( selector ): null, undefined and the empty string are falsy.
Truthy(sel) == sel.defined /\ sel.string # ""

\* let match = domNode; if ( selector ) { match = domNode.querySelector( selector ); }
matchOf(sel, node) ==
    IF Truthy(sel) THEN querySelector(node, sel.string) ELSE node

\* matcher( selector )( domNode )
matcher(sel, node) ==
    LET match == matchOf(sel, node)
    IN IF match # NoNode THEN fromDOM(match.childNodes) ELSE Returned(<<>>)

----------------------------------------------------------------------------
(* toText                                                                  *)

getSerializeCapableElement(children) == children

RECURSIVE getTextElements(_)
\* getTextElements: every string of the tree, depth first, left to right.
getTextElements(element) ==
    IF element = <<>> THEN <<>>
    ELSE LET x == Head(element) IN
         (IF IsString(x) THEN <<x.value>> ELSE getTextElements(x.children))
         \o getTextElements(Tail(element))

RECURSIVE join(_, _)
\* Array.prototype.join
join(parts, separator) ==
    IF parts = <<>> THEN ""
    ELSE IF Len(parts) = 1 THEN parts[1]
    ELSE parts[1] \o separator \o join(Tail(parts), separator)

\* Variant: join() with a one-space separator.
toTextSpaced(children) ==
    join(getTextElements(getSerializeCapableElement(children)), " ")

\* toText( children )
toText(children) ==
    LET element == getSerializeCapableElement(children)
    IN join(getTextElements(element), "")

----------------------------------------------------------------------------
(* The caller.                                                             *)

RECURSIVE Allocate(_, _)
\* The heap after the caller has built its argument arrays, in order.
Allocate(h, argValues) ==
    IF argValues = <<>> THEN h
    ELSE Allocate(IF Head(argValues).tag = "array"
                  THEN Append(h, Head(argValues).items) ELSE h,
                  Tail(argValues))

RECURSIVE Refs(_, _)
\* The arguments as passed: a child by value, an array by its address.
Refs(h, argValues) ==
    IF argValues = <<>> THEN <<>>
    ELSE LET x == Head(argValues) IN
         IF x.tag = "array"
         THEN <<[tag |-> "array", addr |-> Len(h) + 1]>>
              \o Refs(Append(h, x.items), Tail(argValues))
         ELSE <<x>> \o Refs(h, Tail(argValues))

Init ==
    /\ heap = <<>>
    /\ op = "none"
    /\ prevOp = "none"
    /\ calls = 0
    /\ blockNodes = <<>>
    /\ entryHeap = <<>>
    /\ ret = 0
    /\ prevRet = 0
    /\ raised = FALSE
    /\ domNodes = <<>>
    /\ domNode = NoNode
    /\ selector = NoSelector
    /\ text = ""

\* The effect of concat(args) called on heap h.
DoConcat(h, args) ==
    LET r == concat(h, args) IN
    /\ heap' = r.heap
    /\ ret' = r.ret
    /\ blockNodes' = args
    /\ entryHeap' = h
    /\ op' = "concat"
    /\ prevOp' = op
    /\ prevRet' = ret
    /\ calls' = calls + 1
    /\ raised' = FALSE
    /\ UNCHANGED <<domNodes, domNode, selector, text>>

\* concat called on arguments the caller has just built.
CallConcat ==
    /\ calls = 0
    /\ \E argValues \in ArgLists :
          DoConcat(Allocate(heap, argValues), Refs(heap, argValues))

\* concat called on the array the previous call returned, once or as both
\* arguments.
CallConcatOnResult ==
    /\ op \in {"concat", "fromDOM", "matcher"}
    /\ calls < MaxCalls
    /\ ~raised
    /\ \E n \in 1..2 :
          DoConcat(heap, [k \in 1..n |-> [tag |-> "array", addr |-> ret]])

\* The effect of a call that builds an array from DOM nodes.
DoFromDOM(name, r, nodes, root, sel) ==
    /\ heap' = IF r.threw THEN heap ELSE Append(heap, r.value)
    /\ ret' = IF r.threw THEN 0 ELSE Len(heap) + 1
    /\ raised' = r.threw
    /\ domNodes' = nodes
    /\ domNode' = root
    /\ selector' = sel
    /\ entryHeap' = heap
    /\ op' = name
    /\ prevOp' = op
    /\ prevRet' = ret
    /\ calls' = calls + 1
    /\ UNCHANGED <<blockNodes, text>>

\* fromDOM called on a node list.
CallFromDOM ==
    /\ calls = 0
    /\ \E nodes \in NodeLists :
          DoFromDOM("fromDOM", fromDOM(nodes), nodes, NoNode, NoSelector)

\* matcher( selector ) applied to a root node.
CallMatcher ==
    /\ calls = 0
    /\ \E root \in Roots, sel \in Selectors :
          LET match == matchOf(sel, root) IN
          DoFromDOM("matcher", matcher(sel, root),
                    IF match # NoNode THEN match.childNodes ELSE <<>>, root, sel)

\* The effect of toText called on the array at address a of heap h.
DoToText(h, a) ==
    /\ text' = toText(h[a])
    /\ heap' = h
    /\ ret' = a
    /\ op' = "toText"
    /\ prevOp' = op
    /\ prevRet' = ret
    /\ calls' = calls + 1
    /\ raised' = FALSE
    /\ UNCHANGED <<blockNodes, entryHeap, domNodes, domNode, selector>>

\* toText called on an array the caller has just built.
CallToText ==
    /\ calls = 0
    /\ \E children \in ChildrenInputs :
          DoToText(Append(heap, children), Len(heap) + 1)

\* toText called on the array the previous call returned.
CallToTextOnResult ==
    /\ op \in {"concat", "fromDOM", "matcher"}
    /\ calls < MaxCalls
    /\ ~raised
    /\ DoToText(heap, ret)

Next ==
    \/ CallConcat
    \/ CallConcatOnResult
    \/ CallFromDOM
    \/ CallMatcher
    \/ CallToText
    \/ CallToTextOnResult

Spec == Init /\ [][Next]_vars

----------------------------------------------------------------------------
(* Properties.                                                             *)

\* No two consecutive children are both strings.
NoAdjacentText(s) ==
    \A k \in 1..(Len(s) - 1) : ~(IsString(s[k]) /\ IsString(s[k + 1]))

IsNodeChild(x) == ~IsString(x)

RECURSIVE Flatten(_, _)
\* The children of the arguments, in argument order and item order.
Flatten(h, args) ==
    IF args = <<>> THEN <<>>
    ELSE (IF Head(args).tag = "array" THEN h[Head(args).addr] ELSE <<Head(args).item>>)
         \o Flatten(h, Tail(args))

\* The last index of the run of strings that starts at index k of s.
RunEnd(s, k) ==
    CHOOSE m \in k..Len(s) :
        /\ \A q \in k..m : IsString(s[q])
        /\ (m < Len(s) => ~IsString(s[m + 1]))

RECURSIVE ConcatValues(_)
ConcatValues(s) == IF s = <<>> THEN "" ELSE Head(s).value \o ConcatValues(Tail(s))

RECURSIVE Coalesce(_)
\* s with every maximal run of adjacent strings replaced by their concatenation.
Coalesce(s) ==
    IF s = <<>> THEN <<>>
    ELSE IF ~IsString(s[1]) THEN <<s[1]>> \o Coalesce(Tail(s))
    ELSE LET m == RunEnd(s, 1)
         IN <<TextRun(ConcatValues(SubSeq(s, 1, m)))>> \o Coalesce(SubSeq(s, m + 1, Len(s)))

RECURSIVE PlainText(_)
\* The strings of the tree, depth first and left to right, put end to end.
PlainText(s) ==
    IF s = <<>> THEN ""
    ELSE (IF IsString(Head(s)) THEN Head(s).value ELSE PlainText(Head(s).children))
         \o PlainText(Tail(s))

Converts(n) == ~nodeFromDOM(n).threw
ConvertsToString(n) == Converts(n) /\ IsString(nodeFromDOM(n).value)

RECURSIVE Preorder(_)
\* The nodes of the list and below, in document order.
Preorder(nodes) ==
    IF nodes = <<>> THEN <<>>
    ELSE <<Head(nodes)>> \o Preorder(Head(nodes).childNodes) \o Preorder(Tail(nodes))

\* The indices, in document order, of the descendants of node named sel.
MatchesBelow(node, sel) ==
    LET d == Preorder(node.childNodes)
    IN {k \in 1..Len(d) : d[k].nodeType = "element" /\ d[k].nodeName = sel}

FirstMatchBelow(node, sel) ==
    LET d == Preorder(node.childNodes)
        ks == MatchesBelow(node, sel)
    IN d[CHOOSE k \in ks : \A q \in ks : k <= q]

\* The arrays the last concat call was given are the arrays at these addresses.
ArgAddrs == {blockNodes[k].addr : k \in {q \in 1..Len(blockNodes) : blockNodes[q].tag = "array"}}

\* C1: what concat returns has no two consecutive strings, whatever its
\* arguments were: single children, arrays, arrays that already hold adjacent
\* strings, or an array fromDOM returned.
C1_ConcatNoAdjacentText ==
    op = "concat" => NoAdjacentText(heap[ret])

C1_Witness ==
    /\ op = "concat"
    /\ prevOp = "fromDOM"
    /\ ~NoAdjacentText(entryHeap[prevRet])
    /\ Len(heap[ret]) >= 2

\* C2: what concat returns is its arguments flattened in argument order and
\* item order, with every maximal run of adjacent strings replaced by their
\* concatenation; the element nodes are those of the arguments, in order.
C2_ConcatIsCoalescedFlattening ==
    op = "concat" =>
        /\ heap[ret] = Coalesce(Flatten(entryHeap, blockNodes))
        /\ SelectSeq(heap[ret], IsNodeChild)
             = SelectSeq(Flatten(entryHeap, blockNodes), IsNodeChild)

C2_Witness ==
    /\ op = "concat"
    /\ Len(blockNodes) = 2
    /\ blockNodes[1].tag = "array"
    /\ entryHeap[blockNodes[1].addr] = <<TextRun("a"), InlineNode("em", <<>>)>>
    /\ blockNodes[2] = [tag |-> "item", item |-> TextRun("b")]
    /\ heap[ret] = <<TextRun("a"), InlineNode("em", <<>>), TextRun("b")>>

\* C3: fromDOM never throws, however many of its nodes fail to convert.
C3_FromDOMNeverThrows ==
    op = "fromDOM" => ~raised

C3_Witness ==
    /\ op = "fromDOM"
    /\ Len(domNodes) >= 2
    /\ \A k \in 1..Len(domNodes) : ~Converts(domNodes[k])
    /\ ~raised
    /\ heap[ret] = <<>>

\* C4 as stated: what concat, fromDOM and a matcher function return has no two
\* consecutive strings.
C4_NoAdjacentTextEverywhere ==
    (op \in {"concat", "fromDOM", "matcher"} /\ ~raised) => NoAdjacentText(heap[ret])

\* C4 as amended: what concat returns has no two consecutive strings, also
\* when its argument is what fromDOM or a matcher function returned; fromDOM
\* and a matcher function return the converted nodes as they are, so that
\* their result has two consecutive strings exactly when two nodes of the
\* node list that convert to strings have only nodes that fail to convert
\* between them.
C4_NoAdjacentTextAfterConcat ==
    /\ op = "concat" => NoAdjacentText(heap[ret])
    /\ (op \in {"fromDOM", "matcher"} /\ ~raised) =>
         (NoAdjacentText(heap[ret]) <=>
            ~\E k, m \in 1..Len(domNodes) :
                /\ k < m
                /\ ConvertsToString(domNodes[k])
                /\ ConvertsToString(domNodes[m])
                /\ \A q \in (k + 1)..(m - 1) : ~Converts(domNodes[q]))

C4_Witness ==
    /\ op = "concat"
    /\ prevOp = "matcher"
    /\ Truthy(selector)
    /\ ~NoAdjacentText(entryHeap[prevRet])
    /\ blockNodes = <<[tag |-> "array", addr |-> prevRet]>>
    /\ NoAdjacentText(heap[ret])

\* C5: what fromDOM returns is the conversions of the nodes that convert, in
\* the order of the node list, one child per such node, nothing merged.
C5_FromDOMKeepsConvertedNodes ==
    op = "fromDOM" =>
        /\ ~raised
        /\ LET kept == SelectSeq(domNodes, Converts)
           IN /\ Len(heap[ret]) = Cardinality({k \in 1..Len(domNodes) : Converts(domNodes[k])})
              /\ heap[ret] = [k \in 1..Len(kept) |-> nodeFromDOM(kept[k]).value]

C5_Witness ==
    /\ op = "fromDOM"
    /\ domNodes = <<TextNode("a"), CommentNode, TextNode("b")>>
    /\ heap[ret] = <<TextRun("a"), TextRun("b")>>

\* C6: concat applied to what concat returned returns an equal array.
C6_ConcatIdempotent ==
    (op = "concat" /\ prevOp = "concat" /\ blockNodes = <<[tag |-> "array", addr |-> prevRet]>>)
        => heap[ret] = heap[prevRet]

C6_Witness ==
    /\ op = "concat"
    /\ prevOp = "concat"
    /\ blockNodes = <<[tag |-> "array", addr |-> prevRet]>>
    /\ ret # prevRet
    /\ heap[ret] = <<TextRun("ab"), InlineNode("em", <<>>)>>

\* C7: a matcher function returns fromDOM of the root's child nodes when the
\* selector is null or empty, fromDOM of the child nodes of the first
\* descendant matching the selector when there is one, and an empty array
\* otherwise.
C7_MatcherResult ==
    op = "matcher" =>
        /\ ~raised
        /\ heap[ret] =
             IF ~selector.defined \/ selector.string = ""
             THEN fromDOM(domNode.childNodes).value
             ELSE IF MatchesBelow(domNode, selector.string) # {}
                  THEN fromDOM(FirstMatchBelow(domNode, selector.string).childNodes).value
                  ELSE <<>>

C7_Witness ==
    /\ op = "matcher"
    /\ selector = [defined |-> TRUE, string |-> "em"]
    /\ Len(domNode.childNodes) = 1
    /\ domNode.childNodes[1].nodeName = "p"
    /\ heap[ret] = <<TextRun("a")>>

\* C8: toText returns the strings met in a depth-first, left-to-right walk of
\* its argument, children of element nodes included, put end to end with
\* nothing between them.
C8_ToTextIsDepthFirstText ==
    op = "toText" => text = PlainText(heap[ret])

C8_Witness ==
    /\ op = "toText"
    /\ heap[ret] = <<TextRun("a"), InlineNode("em", <<TextRun("b")>>)>>
    /\ text = "ab"

\* C9: concat leaves every array that existed when it was called as it was,
\* and returns an array that did not exist then.
C9_ConcatLeavesInputsAlone ==
    op = "concat" =>
        /\ ret \notin 1..Len(entryHeap)
        /\ ret \notin ArgAddrs
        /\ \A a \in 1..Len(entryHeap) : heap[a] = entryHeap[a]

C9_Witness ==
    /\ op = "concat"
    /\ Len(blockNodes) = 2
    /\ blockNodes[1].tag = "array" /\ blockNodes[2].tag = "array"
    /\ entryHeap[blockNodes[1].addr] = <<TextRun("a")>>
    /\ entryHeap[blockNodes[2].addr] = <<TextRun("b")>>
    /\ heap[ret] = <<TextRun("ab")>>
    /\ heap[blockNodes[1].addr] = <<TextRun("a")>>

RECURSIVE TextOfArgs(_, _)
\* toText of each argument, put end to end.
TextOfArgs(h, args) ==
    IF args = <<>> THEN ""
    ELSE toText(castArray(h, Head(args))) \o TextOfArgs(h, Tail(args))

\* C10: toText of what concat returned is toText of its first argument
\* followed by toText of its second, and so on.
C10_ConcatPreservesText ==
    (op = "toText" /\ prevOp = "concat") => text = TextOfArgs(entryHeap, blockNodes)

C10_Witness ==
    /\ op = "toText"
    /\ prevOp = "concat"
    /\ Len(blockNodes) = 2
    /\ blockNodes[1].tag = "array"
    /\ entryHeap[blockNodes[1].addr] = <<TextRun("a")>>
    /\ blockNodes[2] = [tag |-> "item", item |-> InlineNode("em", <<TextRun("b")>>)]
    /\ text = "ab"
====
